---- MODULE Spec2Model ----
(***************************************************************************)
(* A model of anyix (src/src/lib.rs): the AnyIx wire format (pack, unpack), *)
(* the builder encode_instructions, and the dispatcher handle_anyix.        *)
(*                                                                          *)
(* Two specifications share the variables:                                  *)
(*   Spec          the codec pipeline: encode_instructions, pack, unpack    *)
(*   DispatchSpec  one call of handle_anyix, one loop iteration per step    *)
(***************************************************************************)
EXTENDS Integers, Sequences, FiniteSets, TLC

VARIABLES
    pc,          \* position of the modelled caller / of handle_anyix
    origin,      \* how the caller formed its input
    ixs,         \* &[Instruction] handed to encode_instructions
    any_ix,      \* the AnyIx under construction (result of encode_instructions)
    packed,      \* result of AnyIx::pack
    input,       \* the buffer handed to AnyIx::unpack
    unpacked,    \* result of AnyIx::unpack
    program_id,  \* handle_anyix parameter: the executing program's identity
    accounts,    \* handle_anyix parameter: the flat AccountInfo list
    data,        \* handle_anyix parameter: the encoded buffer
    arb_ix,      \* handle_anyix local: the decoded AnyIx
    offset,      \* handle_anyix local: running offset (u8)
    idx,         \* handle_anyix local: loop index
    calls,       \* the invocations of solana_program::program::invoke so far
    result       \* what handle_anyix returned (or how it aborted)

vars == <<pc, origin, ixs, any_ix, packed, input, unpacked,
          program_id, accounts, data, arb_ix, offset, idx, calls, result>>

codecVars == <<ixs, any_ix, packed, input, unpacked>>
dispatchVars == <<program_id, accounts, data, arb_ix, offset, idx, calls, result>>

----------------------------------------------------------------------------
(* Bounds of the model *)

\* longest instruction list / batch drawn exhaustively
MaxIx == 2
\* longest payload drawn exhaustively
MaxData == 1
\* most AccountMetas of a built instruction, drawn exhaustively
MaxIxAccounts == 1
\* longest flat account list handed to handle_anyix
MaxAccounts == 4
\* largest per-instruction account count in a dispatched batch
MaxCount == 2
\* longest raw buffer handed to unpack
MaxBuf == 4
\* most bytes appended after a packed buffer
MaxTrail == 2

(* Program constants *)

\* number of values of a u8: num_instructions, the sizes and the counts are u8
U8Mod == 256

U8Max == U8Mod - 1

----------------------------------------------------------------------------
(* Rust values *)

Ok(v) == [tag |-> "Ok", val |-> v]
Err(e) == [tag |-> "Err", val |-> e]
Panic(m) == [tag |-> "panic", val |-> m]
None == [tag |-> "None", val |-> "none"]
\* the unit value ()
Unit == "()"

SeqsUpTo(S, n) == UNION {[1..k -> S] : k \in 0..n}

\* n copies of x
Repeat(x, n) == [k \in 1..n |-> x]

RECURSIVE Concat(_)
\* the concatenation of a sequence of sequences, by halves
Concat(ss) ==
    IF ss = <<>> THEN <<>>
    ELSE IF Len(ss) = 1 THEN ss[1]
    ELSE LET h == Len(ss) \div 2 IN
         Concat(SubSeq(ss, 1, h)) \o Concat(SubSeq(ss, h + 1, Len(ss)))

RECURSIVE Sum(_)
\* the sum of a sequence of numbers, by halves
Sum(s) ==
    IF s = <<>> THEN 0
    ELSE IF Len(s) = 1 THEN s[1]
    ELSE LET h == Len(s) \div 2 IN
         Sum(SubSeq(s, 1, h)) + Sum(SubSeq(s, h + 1, Len(s)))

----------------------------------------------------------------------------
(* AnyIx and its codec *)

AnyIx(n, sizes, counts, datas) ==
    [num_instructions |-> n,
     instruction_data_sizes |-> sizes,
     instruction_account_counts |-> counts,
     instruction_datas |-> datas]

unpack_u8_slice_off_by_one(in, count) ==
    IF count >= Len(in)
    THEN Panic("split_at: mid > len")
    ELSE Ok(<<SubSeq(in, 1, count), SubSeq(in, count + 1, Len(in))>>)

unpack_u8_slice_clamped(in, count) ==
    LET mid == IF count > Len(in) THEN Len(in) ELSE count IN
    Ok(<<SubSeq(in, 1, mid), SubSeq(in, mid + 1, Len(in))>>)

\* <[u8]>::split_at(count) behind a Result that is always Ok: the split panics
\* when count exceeds the slice's length.
unpack_u8_slice(in, count) ==
    IF count > Len(in)
    THEN Panic("split_at: mid > len")
    ELSE Ok(<<SubSeq(in, 1, count), SubSeq(in, count + 1, Len(in))>>)

RECURSIVE unpack_datas(_, _)
\* the loop of unpack over instruction_data_sizes, split_at per data size:
\* Ok(<<instruction_datas, data left>>), or the panic of the first split_at
\* that asks for more than is left. The sizes are walked in order, by halves.
unpack_datas(sizes, rest) ==
    IF sizes = <<>> THEN Ok(<<(<<>>), rest>>)
    ELSE IF Len(sizes) = 1
    THEN IF sizes[1] > Len(rest) THEN Panic("split_at: mid > len")
         ELSE Ok(<<(<<SubSeq(rest, 1, sizes[1])>>),
                   SubSeq(rest, sizes[1] + 1, Len(rest))>>)
    ELSE LET h == Len(sizes) \div 2
             l == unpack_datas(SubSeq(sizes, 1, h), rest) IN
         IF l.tag # "Ok" THEN l
         ELSE LET r == unpack_datas(SubSeq(sizes, h + 1, Len(sizes)), l.val[2]) IN
              IF r.tag # "Ok" THEN r
              ELSE Ok(<<l.val[1] \o r.val[1], r.val[2]>>)

unpack_no_empty_check(in) ==
      LET r1 == unpack_u8_slice(in, 1) IN
      IF r1.tag # "Ok" THEN r1 ELSE
      LET num_instructions == r1.val[1]
          r2 == unpack_u8_slice(r1.val[2], num_instructions[1]) IN
      IF r2.tag # "Ok" THEN r2 ELSE
      LET r3 == unpack_u8_slice(r2.val[2], num_instructions[1]) IN
      IF r3.tag # "Ok" THEN r3 ELSE
      LET r4 == unpack_datas(r2.val[1], r3.val[2]) IN
      IF r4.tag # "Ok" THEN r4 ELSE
      Ok(AnyIx(num_instructions[1], r2.val[1], r3.val[1], r4.val[1]))

unpack_rejecting_trailing(in) ==
    IF in = <<>> THEN Err("InvalidInstructionData")
    ELSE
      LET r1 == unpack_u8_slice(in, 1) IN
      IF r1.tag # "Ok" THEN r1 ELSE
      LET num_instructions == r1.val[1]
          r2 == unpack_u8_slice(r1.val[2], num_instructions[1]) IN
      IF r2.tag # "Ok" THEN r2 ELSE
      LET r3 == unpack_u8_slice(r2.val[2], num_instructions[1]) IN
      IF r3.tag # "Ok" THEN r3 ELSE
      LET r4 == unpack_datas(r2.val[1], r3.val[2]) IN
      IF r4.tag # "Ok" THEN r4 ELSE
      IF r4.val[2] # <<>> THEN Err("InvalidInstructionData") ELSE
      Ok(AnyIx(num_instructions[1], r2.val[1], r3.val[1], r4.val[1]))

unpack(in) ==
    IF in = <<>> THEN Err("InvalidInstructionData")
    ELSE
      LET r1 == unpack_u8_slice(in, 1) IN
      IF r1.tag # "Ok" THEN r1 ELSE
      LET num_instructions == r1.val[1]
          r2 == unpack_u8_slice(r1.val[2], num_instructions[1]) IN
      IF r2.tag # "Ok" THEN r2 ELSE
      LET instruction_data_sizes == r2.val[1]
          r3 == unpack_u8_slice(r2.val[2], num_instructions[1]) IN
      IF r3.tag # "Ok" THEN r3 ELSE
      LET instruction_account_counts == r3.val[1]
          r4 == unpack_datas(instruction_data_sizes, r3.val[2]) IN
      IF r4.tag # "Ok" THEN r4 ELSE
      Ok(AnyIx(num_instructions[1], instruction_data_sizes,
               instruction_account_counts, r4.val[1]))

pack_length_prefixed(self) ==
    <<self.num_instructions>>
        \o self.instruction_data_sizes
        \o self.instruction_account_counts
        \o Concat([i \in 1..Len(self.instruction_datas) |->
                      <<Len(self.instruction_datas[i])>> \o self.instruction_datas[i]])

pack_counts_first(self) ==
    <<self.num_instructions>>
        \o self.instruction_account_counts
        \o self.instruction_data_sizes
        \o Concat(self.instruction_datas)

pack(self) ==
    <<self.num_instructions>>
        \o self.instruction_data_sizes
        \o self.instruction_account_counts
        \o Concat(self.instruction_datas)

----------------------------------------------------------------------------
(* encode_instructions *)

Instruction(p, accs, d) == [program_id |-> p, accounts |-> accs, data |-> d]

try_into_u8_wrapping(n) == Ok(n % U8Mod)

\* usize -> u8 by try_into().unwrap(): aborts when the value does not fit
try_into_u8(n) ==
    IF n > U8Max THEN Panic("called Result::unwrap() on an Err value")
    ELSE Ok(n)

\* `len as u8`: the truncating cast
as_u8(n) == n % U8Mod

encode_instructions_swapped(list) ==
    IF \E i \in 1..Len(list) : Len(list[i].data) > U8Max \/ Len(list[i].accounts) > U8Max
    THEN Panic("called Result::unwrap() on an Err value")
    ELSE Ok(AnyIx(Len(list) % U8Mod,
                  [i \in 1..Len(list) |-> Len(list[i].accounts)],
                  [i \in 1..Len(list) |-> Len(list[i].data)],
                  [i \in 1..Len(list) |-> list[i].data]))

encode_instructions(list) ==
    LET num_instructions == Len(list)
        sizes == [i \in 1..Len(list) |-> try_into_u8(Len(list[i].data))]
        counts == [i \in 1..Len(list) |-> try_into_u8(Len(list[i].accounts))]
    IN  IF \E i \in 1..Len(list) : sizes[i].tag = "panic"
        THEN sizes[CHOOSE i \in 1..Len(list) : sizes[i].tag = "panic"]
        ELSE IF \E i \in 1..Len(list) : counts[i].tag = "panic"
        THEN counts[CHOOSE i \in 1..Len(list) : counts[i].tag = "panic"]
        ELSE Ok(AnyIx(as_u8(num_instructions),
                      [i \in 1..Len(list) |-> sizes[i].val],
                      [i \in 1..Len(list) |-> counts[i].val],
                      [i \in 1..Len(list) |-> list[i].data]))

----------------------------------------------------------------------------
(* Inputs of the codec pipeline *)

\* byte values of raw buffers
Bytes == {0, 1, 2}
\* account counts stored in directly assembled batches
CodecCounts == {0, 3}
\* pubkeys: SelfKey is the dispatching program
SelfKey == 1
Keys == {1, 2, 3}

\* the payload of d bytes
DataOfLen(d) == [k \in 1..d |-> k % U8Mod]

Payloads == {DataOfLen(d) : d \in 0..MaxData}

\* the data-model invariants of a batch
ValidAnyIx(b) ==
    /\ Len(b.instruction_data_sizes) = b.num_instructions
    /\ Len(b.instruction_account_counts) = b.num_instructions
    /\ Len(b.instruction_datas) = b.num_instructions
    /\ \A i \in 1..b.num_instructions :
          Len(b.instruction_datas[i]) = b.instruction_data_sizes[i]

ValidBatches ==
    UNION {
      { AnyIx(n, [i \in 1..n |-> Len(ds[i])], cs, ds) :
          ds \in [1..n -> Payloads], cs \in [1..n -> CodecCounts] }
      : n \in 0..MaxIx }

\* AnyIx has public fields: a caller may assemble a batch whose count or sizes
\* disagree with its vectors
SkewedBatches ==
    { [b EXCEPT !.num_instructions = n] :
          b \in ValidBatches, n \in 0..(MaxIx + 1) }
    \cup UNION {
      { [b EXCEPT !.instruction_data_sizes[i] = v] :
          i \in 1..b.num_instructions, v \in 0..(MaxData + 1) }
      : b \in ValidBatches }

Batches == ValidBatches \cup SkewedBatches

RawBuffers == SeqsUpTo(Bytes, MaxBuf)

\* byte values of the bytes after the last payload
TrailBytes == {0, 1}

Trailers == SeqsUpTo(TrailBytes, MaxTrail) \ {<<>>}

\* the k-th AccountMeta of a built instruction
MetaAt(k) ==
    [pubkey |-> 2 + (k % 2), is_signer |-> (k % 2 = 1), is_writable |-> (k % 3 # 1)]

MetaPrefix(n) == [k \in 1..n |-> MetaAt(k)]

IxUniverse ==
    { Instruction(p, MetaPrefix(a), DataOfLen(d)) :
        p \in Keys \ {SelfKey}, a \in 0..MaxIxAccounts, d \in 0..MaxData }

\* lists at the u8 limits: 255 and 256 instructions, payload bytes, accounts
BoundaryIxLists ==
    { Repeat(Instruction(2, MetaPrefix(1), DataOfLen(1)), n) : n \in {U8Max, U8Mod, U8Mod + 1} }
    \cup { <<Instruction(2, MetaPrefix(1), DataOfLen(d))>> : d \in {U8Max, U8Mod} }
    \cup { <<Instruction(2, MetaPrefix(a), DataOfLen(1))>> : a \in {U8Max, U8Mod} }

IxLists == SeqsUpTo(IxUniverse, MaxIx) \cup BoundaryIxLists

----------------------------------------------------------------------------
(* The codec pipeline: encode_instructions, pack, (truncate), unpack *)

DispatchIdle ==
    /\ program_id = SelfKey
    /\ accounts = <<>>
    /\ data = <<>>
    /\ arb_ix = None
    /\ offset = 0
    /\ idx = 0
    /\ calls = <<>>
    /\ result = None

Init ==
    /\ DispatchIdle
    /\ packed = None
    /\ unpacked = None
    /\ \/ /\ ixs \in IxLists
          /\ any_ix = None
          /\ input = <<>>
          /\ origin = "encode_instructions"
          /\ pc = "encode"
       \/ /\ ixs = <<>>
          /\ any_ix \in {Ok(b) : b \in Batches}
          /\ input = <<>>
          /\ origin = "assembled"
          /\ pc = "pack"
       \/ /\ ixs = <<>>
          /\ any_ix = None
          /\ input \in RawBuffers
          /\ origin = "raw"
          /\ pc = "unpack"

Encode ==
    /\ pc = "encode"
    /\ any_ix' = encode_instructions(ixs)
    /\ pc' = IF any_ix'.tag = "Ok" THEN "pack" ELSE "end"
    /\ UNCHANGED <<ixs, packed, input, unpacked>>
    /\ UNCHANGED <<origin, dispatchVars>>

Pack ==
    /\ pc = "pack"
    /\ packed' = Ok(pack(any_ix.val))
    /\ pc' = "feed"
    /\ UNCHANGED <<ixs, any_ix, input, unpacked>>
    /\ UNCHANGED <<origin, dispatchVars>>

\* the caller hands the packed buffer, or a prefix of it, or the buffer with
\* bytes after it, to unpack
Feed ==
    /\ pc = "feed"
    /\ \/ \E k \in 0..Len(packed.val) : input' = SubSeq(packed.val, 1, k)
       \/ \E t \in Trailers : input' = packed.val \o t
    /\ pc' = "unpack"
    /\ UNCHANGED <<ixs, any_ix, packed, unpacked>>
    /\ UNCHANGED <<origin, dispatchVars>>

Unpack ==
    /\ pc = "unpack"
    /\ unpacked' = unpack(input)
    /\ pc' = "end"
    /\ UNCHANGED <<ixs, any_ix, packed, input>>
    /\ UNCHANGED <<origin, dispatchVars>>

Next == Encode \/ Pack \/ Feed \/ Unpack

Spec == Init /\ [][Next]_vars

----------------------------------------------------------------------------
(* handle_anyix *)

AccountInfo(k, s, w) == [key |-> k, is_signer |-> s, is_writable |-> w]

\* &accounts[start..end]: aborts when start > end or end > accounts.len()
slice_accounts(accs, start, end) ==
    IF start > end THEN Panic("slice index starts after its end")
    ELSE IF end > Len(accs) THEN Panic("range end index out of range for slice")
    ELSE Ok(SubSeq(accs, start + 1, end))

\* the slice handle_anyix takes for one instruction: from the running offset
\* to instruction_account_counts[idx], the count used as the end index
instruction_accounts(accs, off, count) == slice_accounts(accs, off, count)

never_self_invocation(pid, program_account) == FALSE

\* program_id.eq(program_account.key)
is_self_invocation(pid, program_account) == pid = program_account.key

to_account_meta_writable(account) ==
    [pubkey |-> account.key, is_signer |-> account.is_signer, is_writable |-> TRUE]

\* the closure mapped over accounts[1..]: AccountMeta::new for a writable
\* account, AccountMeta::new_readonly otherwise, the signer flag passed on
to_account_meta(account) ==
    IF account.is_writable
    THEN [pubkey |-> account.key, is_signer |-> account.is_signer, is_writable |-> TRUE]
    ELSE [pubkey |-> account.key, is_signer |-> account.is_signer, is_writable |-> FALSE]

first_instruction_data(b, i) == b.instruction_datas[1]

\* instruction_datas[idx as usize].clone()
instruction_data(b, i) == b.instruction_datas[i + 1]

propagates_never(r) == FALSE

\* the `?` after invoke: return early exactly on Err
propagates(r) == r.tag = "Err"

\* one invocation of solana_program::program::invoke: the loop index, where
\* the slice began in the flat list, the arguments, and what invoke answered
Call(i, start, ix, infos, ret) ==
    [idx |-> i, start |-> start, instruction |-> ix, account_infos |-> infos,
     ret |-> ret]

\* what solana_program::program::invoke may answer
InvokeResults == {Ok(Unit), Err("ExecutorError")}

----------------------------------------------------------------------------
(* Inputs of handle_anyix *)

AccountInfos ==
    { AccountInfo(SelfKey, FALSE, TRUE), AccountInfo(2, TRUE, FALSE),
      AccountInfo(3, FALSE, FALSE) }

AccountLists == SeqsUpTo(AccountInfos, MaxAccounts)

\* the payload of the i-th instruction of a dispatched batch
DispatchData(i) == [k \in 1..i |-> 10 + i]

DispatchBatches ==
    UNION {
      { AnyIx(n, [i \in 1..n |-> Len(DispatchData(i))], cs,
              [i \in 1..n |-> DispatchData(i)]) :
          cs \in [1..n -> 0..MaxCount] }
      : n \in 0..MaxIx }

\* empty, cut in the sizes, cut in the counts, cut in the payloads
MalformedBuffers == { <<>>, <<1>>, <<1, 0>>, <<1, 1, 1>> }

DispatchBuffers == {pack(b) : b \in DispatchBatches} \cup MalformedBuffers

\* the flat list a caller passes for built instructions: for each instruction
\* its program account, then its accounts
RECURSIVE FlatAccounts(_)
FlatAccounts(list) ==
    IF list = <<>> THEN <<>>
    ELSE <<AccountInfo(Head(list).program_id, FALSE, FALSE)>>
         \o [k \in 1..Len(Head(list).accounts) |->
               AccountInfo(Head(list).accounts[k].pubkey,
                           Head(list).accounts[k].is_signer,
                           Head(list).accounts[k].is_writable)]
         \o FlatAccounts(Tail(list))

\* two instructions of 2 and 3 accounts over five distinct accounts
ExampleBatch == AnyIx(2, <<1, 2>>, <<2, 3>>, <<DispatchData(1), DispatchData(2)>>)
ExampleAccounts ==
    << AccountInfo(2, FALSE, FALSE), AccountInfo(3, TRUE, TRUE),
       AccountInfo(4, FALSE, FALSE), AccountInfo(5, TRUE, FALSE),
       AccountInfo(6, FALSE, TRUE) >>

\* a batch whose account counts add up past a u8, with accounts to cover it
WideCounts == <<100, 200, 50>>
WideBatch == AnyIx(3, <<0, 0, 0>>, WideCounts, <<<<>>, <<>>, <<>>>>)
WideAccounts == Repeat(AccountInfo(2, TRUE, FALSE), Sum(WideCounts))

CodecIdle ==
    /\ any_ix = None
    /\ packed = None
    /\ input = <<>>
    /\ unpacked = None

DispatchInit ==
    /\ CodecIdle
    /\ pc = "entry"
    /\ program_id = SelfKey
    /\ arb_ix = None
    /\ offset = 0
    /\ idx = 0
    /\ calls = <<>>
    /\ result = None
    /\ \/ /\ ixs = <<>>
          /\ origin = "raw"
          /\ data \in DispatchBuffers
          /\ accounts \in AccountLists
       \/ /\ ixs \in SeqsUpTo(IxUniverse, MaxIx) \ {<<>>}
          /\ origin = "encode_instructions"
          /\ data = pack(encode_instructions(ixs).val)
          /\ accounts = FlatAccounts(ixs)
       \/ /\ ixs = <<>>
          /\ origin = "raw"
          /\ \E e \in { <<ExampleBatch, ExampleAccounts>>,
                        <<WideBatch, WideAccounts>> } :
                /\ data = pack(e[1])
                /\ accounts = e[2]

\* handle_anyix stops: by return (Ok, Err) or by abort (panic)
Stop(r) ==
    /\ result' = r
    /\ pc' = "done"

\* AnyIx::unpack(data).unwrap() and the locals
Entry ==
    /\ pc = "entry"
    /\ LET r == unpack(data) IN
         \/ /\ r.tag = "Ok"
            /\ arb_ix' = r.val
            /\ pc' = "loop"
            /\ UNCHANGED result
         \/ /\ r.tag = "Err"
            /\ Stop(Panic("called Result::unwrap() on an Err value"))
            /\ UNCHANGED arb_ix
         \/ /\ r.tag = "panic"
            /\ Stop(r)
            /\ UNCHANGED arb_ix
    /\ offset' = 0
    /\ idx' = 0
    /\ UNCHANGED <<program_id, accounts, data, calls>>
    /\ UNCHANGED <<origin, codecVars>>

\* one iteration of `for idx in 0..num_instructions`
Iterate ==
    /\ pc = "loop"
    /\ idx < arb_ix.num_instructions
    /\ LET count == arb_ix.instruction_account_counts[idx + 1]
           sl == instruction_accounts(accounts, offset, count)
       IN
         \/ /\ sl.tag = "panic"
            /\ Stop(sl)
            /\ UNCHANGED <<offset, idx, calls>>
         \/ \* offset += count overflows the u8 in a build with overflow checks
            /\ sl.tag = "Ok"
            /\ offset + count > U8Max
            /\ Stop(Panic("attempt to add with overflow"))
            /\ UNCHANGED <<offset, idx, calls>>
         \/ \* no overflow, or a build without overflow checks: the sum wraps
            /\ sl.tag = "Ok"
            /\ offset' = (offset + count) % U8Mod
            /\ \/ /\ sl.val = <<>>
                  /\ Stop(Panic("index out of bounds"))
                  /\ UNCHANGED <<idx, calls>>
               \/ /\ sl.val # <<>>
                  /\ is_self_invocation(program_id, sl.val[1])
                  /\ Stop(Panic("self invocation not allowed"))
                  /\ UNCHANGED <<idx, calls>>
               \/ /\ sl.val # <<>>
                  /\ ~is_self_invocation(program_id, sl.val[1])
                  /\ \E r \in InvokeResults :
                        /\ calls' = Append(calls,
                              Call(idx, offset,
                                   Instruction(sl.val[1].key,
                                               [k \in 1..(Len(sl.val) - 1) |->
                                                   to_account_meta(sl.val[k + 1])],
                                               instruction_data(arb_ix, idx)),
                                   sl.val, r))
                        /\ IF propagates(r)
                           THEN Stop(r) /\ UNCHANGED idx
                           ELSE idx' = idx + 1 /\ UNCHANGED <<pc, result>>
    /\ UNCHANGED <<program_id, accounts, data, arb_ix>>
    /\ UNCHANGED <<origin, codecVars>>

\* the loop is over: Ok(())
Return ==
    /\ pc = "loop"
    /\ idx = arb_ix.num_instructions
    /\ Stop(Ok(Unit))
    /\ UNCHANGED <<program_id, accounts, data, arb_ix, offset, idx, calls>>
    /\ UNCHANGED <<origin, codecVars>>

DispatchNext == Entry \/ Iterate \/ Return

DispatchSpec == DispatchInit /\ [][DispatchNext]_vars

----------------------------------------------------------------------------
(* Properties of handle_anyix, checked under DispatchSpec *)

counts_of(b) == b.instruction_account_counts

\* the sum of the account counts of the instructions before index i (0-based)
TrueOffset(b, i) == Sum(SubSeq(counts_of(b), 1, i))

\* C1: every invocation of instruction i, the flat list long enough for it,
\* is given exactly the accounts accounts[offset_i .. offset_i + counts[i]),
\* offset_i the sum of the counts before i: its program is accounts[offset_i]
\* and its account metas are those of
\* accounts[offset_i + 1 .. offset_i + counts[i]).
C1_OffsetRelativeSlices ==
    \A k \in 1..Len(calls) :
        LET c == calls[k]
            off == TrueOffset(arb_ix, c.idx)
            n == counts_of(arb_ix)[c.idx + 1]
        IN  off + n <= Len(accounts) =>
            /\ c.account_infos = SubSeq(accounts, off + 1, off + n)
            /\ c.instruction.program_id = accounts[off + 1].key
            /\ Len(c.instruction.accounts) = n - 1
            /\ \A j \in 1..(n - 1) :
                  c.instruction.accounts[j].pubkey = accounts[off + 1 + j].key

\* the buffer was decoded: arb_ix holds the batch
Decoded == pc = "loop" \/ (pc = "done" /\ result.val # "split_at: mid > len"
                                      /\ result.val # "called Result::unwrap() on an Err value")

\* handle_anyix stopped at index idx, every earlier instruction invoked with
\* success, and the target of instruction idx, the account at the sum of the
\* earlier counts, is the program itself
SelfTargetReached ==
    /\ pc = "done"
    /\ Decoded
    /\ idx < arb_ix.num_instructions
    /\ Len(calls) = idx
    /\ counts_of(arb_ix)[idx + 1] >= 1
    /\ TrueOffset(arb_ix, idx) + counts_of(arb_ix)[idx + 1] <= Len(accounts)
    /\ accounts[TrueOffset(arb_ix, idx) + 1].key = program_id

\* C4: when the first instruction that targets the program itself is reached
\* at index i, handle_anyix returns the error SelfTargetViolation to its
\* caller, and invoke is called for no index >= i.
C4_SelfTargetIsReturnedError ==
    SelfTargetReached =>
        /\ result = Err("SelfTargetViolation")
        /\ \A k \in 1..Len(calls) : calls[k].idx < idx

\* C5: invoke is never called with the executing program as its target.
C5_NoSelfInvocation ==
    \A k \in 1..Len(calls) : calls[k].instruction.program_id # program_id

C5_Witness ==
    /\ pc = "done"
    /\ result = Panic("self invocation not allowed")
    /\ Len(calls) >= 1
    /\ C5_NoSelfInvocation

\* C6: an invocation that fails is the last one, handle_anyix has stopped at
\* its index with that failure as its result; handle_anyix returns Ok only
\* after num_instructions invocations, of the indices 0, 1, ... in order,
\* every one of which succeeded.
C6_FailFast ==
    /\ \A k \in 1..Len(calls) :
          /\ calls[k].idx = k - 1
          /\ calls[k].ret.tag = "Err" =>
                /\ k = Len(calls)
                /\ pc = "done"
                /\ idx = calls[k].idx
                /\ result = calls[k].ret
    /\ (pc = "done" /\ result.tag = "Ok") =>
          /\ Len(calls) = arb_ix.num_instructions
          /\ \A k \in 1..Len(calls) : calls[k].ret.tag = "Ok"

\* the first of two instructions failed: the second is never invoked
C6_Witness ==
    /\ pc = "done"
    /\ Decoded
    /\ arb_ix.num_instructions = 2
    /\ Len(calls) = 1
    /\ calls[1].ret = Err("ExecutorError")
    /\ result = Err("ExecutorError")

\* C9: every account meta handed to invoke carries the key and exactly the
\* is_signer and is_writable flags of the account it was made from in the
\* flat list handle_anyix was given.
C9_AuthorityCarried ==
    \A k \in 1..Len(calls) :
        LET c == calls[k] IN
        \A j \in 1..Len(c.instruction.accounts) :
            LET m == c.instruction.accounts[j]
                a == accounts[c.start + 1 + j]
            IN  /\ m.pubkey = a.key
                /\ m.is_signer = a.is_signer
                /\ m.is_writable = a.is_writable

\* invoke was handed an account that is neither writable nor a signer in the
\* flat list, as a read-only non-signer
C9_Witness ==
    \E k \in 1..Len(calls) :
        LET ms == calls[k].instruction.accounts IN
        \E j \in 1..Len(ms) :
            /\ ~accounts[calls[k].start + 1 + j].is_writable
            /\ ~accounts[calls[k].start + 1 + j].is_signer
            /\ ~ms[j].is_writable
            /\ ~ms[j].is_signer

\* C10: for a batch built by encode_instructions and dispatched against the
\* flat list program_0, accounts_0, program_1, accounts_1, ..., the count of
\* instruction i includes the program account's slot, and instruction i is
\* invoked with program_i and exactly accounts_i.
C10_BuiltCountsIncludeTarget ==
    (origin = "encode_instructions" /\ Decoded) =>
        /\ \A i \in 1..Len(ixs) :
              counts_of(arb_ix)[i] = Len(ixs[i].accounts) + 1
        /\ \A k \in 1..Len(calls) :
              /\ calls[k].instruction.program_id = ixs[calls[k].idx + 1].program_id
              /\ calls[k].instruction.accounts = ixs[calls[k].idx + 1].accounts

----------------------------------------------------------------------------
(* Properties of the codec and the builder, checked under Spec *)

\* C2: a batch that satisfies the data-model invariants, packed and handed
\* whole to unpack, comes back Ok and equal in all four fields.
C2_RoundTrip ==
    (/\ pc = "end"
     /\ any_ix.tag = "Ok"
     /\ packed.tag = "Ok"
     /\ ValidAnyIx(any_ix.val)
     /\ input = packed.val)
        => (unpacked.tag = "Ok" /\ unpacked.val = any_ix.val)

C2_Witness ==
    /\ pc = "end"
    /\ origin = "assembled"
    /\ any_ix.tag = "Ok"
    /\ packed.tag = "Ok"
    /\ ValidAnyIx(any_ix.val)
    /\ any_ix.val.num_instructions = 2
    /\ any_ix.val.instruction_data_sizes = <<1, 0>>
    /\ any_ix.val.instruction_account_counts = <<0, 3>>
    /\ input = packed.val
    /\ unpacked.tag = "Ok"
    /\ unpacked.val = any_ix.val

\* C3: unpack returns a batch or an error for every buffer; it never aborts.
C3_UnpackNeverPanics == unpacked.tag # "panic"

InLimits(ix) == Len(ix.data) <= U8Max /\ Len(ix.accounts) <= U8Max

Encoded == origin = "encode_instructions" /\ pc # "encode"

\* C7: encode_instructions of at most 255 instructions (each within the
\* per-instruction limits) gives a batch whose num_instructions is the length
\* of the list; of more than 255 it fails with LimitExceeded; no batch has a
\* num_instructions other than the length of its vectors.
C7_OperationCountLimit ==
    Encoded =>
        /\ (Len(ixs) <= U8Max /\ \A i \in 1..Len(ixs) : InLimits(ixs[i])) =>
              (any_ix.tag = "Ok" /\ any_ix.val.num_instructions = Len(ixs))
        /\ Len(ixs) > U8Max => any_ix = Err("LimitExceeded")
        /\ any_ix.tag = "Ok" =>
              any_ix.val.num_instructions = Len(any_ix.val.instruction_data_sizes)

\* C8: an instruction whose data or account list is longer than 255 makes
\* encode_instructions fail; a batch it returns holds, for every instruction,
\* the true length of its data and of its account list; and a list within the
\* limits (payloads and account lists of up to 255 entries) is built, and
\* packed and unpacked back to the built batch.
C8_PerOperationLimits ==
    Encoded =>
        /\ (\E i \in 1..Len(ixs) : ~InLimits(ixs[i])) => any_ix.tag = "panic"
        /\ any_ix.tag = "Ok" =>
              /\ Len(any_ix.val.instruction_data_sizes) = Len(ixs)
              /\ Len(any_ix.val.instruction_account_counts) = Len(ixs)
              /\ \A i \in 1..Len(ixs) :
                    /\ any_ix.val.instruction_data_sizes[i] = Len(ixs[i].data)
                    /\ any_ix.val.instruction_account_counts[i] = Len(ixs[i].accounts)
                    /\ any_ix.val.instruction_datas[i] = ixs[i].data
        /\ (Len(ixs) <= U8Max /\ \A i \in 1..Len(ixs) : InLimits(ixs[i])) =>
              /\ any_ix.tag = "Ok"
              /\ (pc = "end" /\ input = packed.val) =>
                    (unpacked.tag = "Ok" /\ unpacked.val = any_ix.val)

\* a payload of exactly 255 bytes was built, packed and unpacked
C8_Witness ==
    /\ Encoded
    /\ pc = "end"
    /\ Len(ixs) = 1
    /\ Len(ixs[1].data) = U8Max
    /\ any_ix.tag = "Ok"
    /\ any_ix.val.instruction_data_sizes = <<U8Max>>
    /\ input = packed.val
    /\ unpacked.tag = "Ok"
    /\ unpacked.val = any_ix.val

\* C11: for a list within the limits, encode_instructions returns the batch
\* assembled from the list: num_instructions its length, and for every
\* instruction, in list order, the length of its data, the length of its
\* account list and its data.
C11_BuilderFields ==
    (Encoded /\ Len(ixs) <= U8Max /\ \A i \in 1..Len(ixs) : InLimits(ixs[i])) =>
        /\ any_ix.tag = "Ok"
        /\ any_ix.val =
              AnyIx(Len(ixs),
                    [i \in 1..Len(ixs) |-> Len(ixs[i].data)],
                    [i \in 1..Len(ixs) |-> Len(ixs[i].accounts)],
                    [i \in 1..Len(ixs) |-> ixs[i].data])

\* two instructions were built whose data sizes and account counts differ
C11_Witness ==
    /\ Encoded
    /\ Len(ixs) = 2
    /\ Len(ixs[1].data) = 1
    /\ Len(ixs[1].accounts) = 0
    /\ Len(ixs[2].data) = 0
    /\ Len(ixs[2].accounts) = 1
    /\ any_ix.tag = "Ok"
    /\ any_ix.val.num_instructions = 2
    /\ any_ix.val.instruction_data_sizes = <<1, 0>>
    /\ any_ix.val.instruction_account_counts = <<0, 1>>

\* where the payload of instruction i (1-based) starts in the packed buffer of
\* batch b: after the count byte, the two header arrays and the payloads
\* before it
PayloadStart(b, i) ==
    1 + 2 * b.num_instructions + Sum(SubSeq(b.instruction_data_sizes, 1, i - 1))

\* C12: the packed form of a valid batch of N instructions is the count byte,
\* then the N data sizes, then the N account counts, then the payloads in
\* order with nothing between them: 1 + 2N + sum(data sizes) bytes.
C12_WireLayout ==
    (any_ix.tag = "Ok" /\ packed.tag = "Ok" /\ ValidAnyIx(any_ix.val)) =>
        LET b == any_ix.val
            n == b.num_instructions
            p == packed.val
        IN  /\ Len(p) = 1 + 2 * n + Sum(b.instruction_data_sizes)
            /\ p[1] = n
            /\ \A i \in 1..n :
                  /\ p[1 + i] = b.instruction_data_sizes[i]
                  /\ p[1 + n + i] = b.instruction_account_counts[i]
                  /\ SubSeq(p, PayloadStart(b, i) + 1,
                            PayloadStart(b, i) + b.instruction_data_sizes[i])
                        = b.instruction_datas[i]

\* a batch of two instructions, the second with a payload, was packed
C12_Witness ==
    /\ any_ix.tag = "Ok"
    /\ packed.tag = "Ok"
    /\ ValidAnyIx(any_ix.val)
    /\ any_ix.val.num_instructions = 2
    /\ any_ix.val.instruction_data_sizes = <<0, 1>>
    /\ any_ix.val.instruction_account_counts = <<3, 0>>
    /\ packed.val = <<2, 0, 1, 3, 0, 1>>

\* C14: unpack of the empty buffer returns the error
\* ProgramError::InvalidInstructionData; it neither succeeds nor aborts.
C14_EmptyInput ==
    (input = <<>> /\ unpacked # None) =>
        (unpacked.tag = "Err" /\ unpacked.val = "InvalidInstructionData")

\* unpack was handed the empty buffer and has returned
C14_Witness ==
    /\ origin = "raw"
    /\ pc = "end"
    /\ input = <<>>
    /\ unpacked.tag = "Err"
    /\ unpacked.val = "InvalidInstructionData"

\* C15: the packed form of a valid batch followed by any bytes unpacks to
\* Ok of that batch: the bytes after the last payload are ignored.
C15_TrailingData ==
    (/\ pc = "end"
     /\ any_ix.tag = "Ok"
     /\ packed.tag = "Ok"
     /\ ValidAnyIx(any_ix.val)
     /\ Len(input) >= Len(packed.val)
     /\ SubSeq(input, 1, Len(packed.val)) = packed.val)
        => (unpacked.tag = "Ok" /\ unpacked.val = any_ix.val)

\* a batch with a payload was unpacked from its packed form and two more bytes
C15_Witness ==
    /\ pc = "end"
    /\ any_ix.tag = "Ok"
    /\ packed.tag = "Ok"
    /\ ValidAnyIx(any_ix.val)
    /\ any_ix.val.num_instructions = 1
    /\ any_ix.val.instruction_data_sizes = <<1>>
    /\ input = packed.val \o <<1, 0>>
    /\ unpacked.tag = "Ok"
    /\ unpacked.val = any_ix.val

\* C18: every batch that unpack returns as Ok has num_instructions equal to
\* the first byte of the input, num_instructions data sizes, account counts
\* and datas, and instruction_datas[i] of length instruction_data_sizes[i].
C18_DecodedBatchShape ==
    (pc = "end" /\ unpacked.tag = "Ok") =>
        /\ input # <<>>
        /\ unpacked.val.num_instructions = input[1]
        /\ ValidAnyIx(unpacked.val)

\* a buffer decodes to a batch of two instructions whose payloads have
\* different sizes
C18_Witness ==
    /\ pc = "end"
    /\ unpacked.tag = "Ok"
    /\ input[1] = 2
    /\ unpacked.val.num_instructions = 2
    /\ unpacked.val.instruction_data_sizes[1] # unpacked.val.instruction_data_sizes[2]
    /\ Len(unpacked.val.instruction_datas[1]) # Len(unpacked.val.instruction_datas[2])

----------------------------------------------------------------------------
(* Further properties of handle_anyix, checked under DispatchSpec *)

\* C13: the buffer [0] decodes to the batch of no instructions, with empty
\* sizes, counts and datas; handle_anyix on it, whatever the account list,
\* calls invoke not once and returns Ok(()).
C13_ZeroOperations ==
    data = <<0>> =>
        /\ calls = <<>>
        /\ result.tag \in {"None", "Ok"}
        /\ pc = "done" => result = Ok(Unit)
        /\ pc # "entry" => arb_ix = AnyIx(0, <<>>, <<>>, <<>>)

\* handle_anyix returned on [0] with an account list of two accounts
C13_Witness ==
    /\ data = <<0>>
    /\ Len(accounts) = 2
    /\ pc = "done"
    /\ arb_ix = AnyIx(0, <<>>, <<>>, <<>>)
    /\ calls = <<>>
    /\ result = Ok(Unit)

\* C16: on a buffer that unpack rejects (empty, or cut short in the header or
\* the payloads) handle_anyix returns the format error to its caller, without
\* aborting and without calling invoke.
C16_MalformedBufferIsReturnedError ==
    (data \in MalformedBuffers /\ pc = "done") =>
        /\ calls = <<>>
        /\ result.tag = "Err"
        /\ result.val = "InvalidInstructionData"

\* C17: the invocations are of the instructions 0, 1, 2, ... in this order,
\* each once; every invocation but the last returned Ok before the next one
\* was made; invocation i carries instruction_datas[i]; and handle_anyix
\* returns Ok only after exactly num_instructions invocations.
C17_SequentialOnce ==
    /\ \A k \in 1..Len(calls) :
          /\ calls[k].idx = k - 1
          /\ calls[k].instruction.data = arb_ix.instruction_datas[k]
          /\ k < Len(calls) => calls[k].ret.tag = "Ok"
    /\ pc = "loop" => (idx = Len(calls) /\ \A k \in 1..Len(calls) : calls[k].ret.tag = "Ok")
    /\ (pc = "done" /\ result.tag = "Ok") => Len(calls) = arb_ix.num_instructions

\* two instructions with different payloads were invoked in order and
\* handle_anyix returned Ok
C17_Witness ==
    /\ pc = "done"
    /\ result = Ok(Unit)
    /\ Len(calls) = 2
    /\ calls[1].idx = 0
    /\ calls[2].idx = 1
    /\ calls[1].instruction.data = DispatchData(1)
    /\ calls[2].instruction.data = DispatchData(2)

\* C19: for a decoded batch and a flat list with at least as many accounts as
\* the counts add up to, offset before instruction idx is the sum of the
\* counts of the instructions before idx, also past 255, and offset += count
\* never aborts handle_anyix.
C19_OffsetIsTrueSum ==
    (Decoded /\ Sum(counts_of(arb_ix)) <= Len(accounts)) =>
        /\ result # Panic("attempt to add with overflow")
        /\ pc = "loop" => offset = TrueOffset(arb_ix, idx)

\* instruction i (0-based) of batch b has no program account, or the flat
\* list ends before the last of its accounts
ShortAt(b, i) ==
    \/ counts_of(b)[i + 1] = 0
    \/ TrueOffset(b, i) + counts_of(b)[i + 1] > Len(accounts)

\* C20: invoke is called for no instruction whose accounts the flat list does
\* not hold, or whose count is 0, and every call is given at least as many
\* accounts as the count of its instruction; handle_anyix does not return Ok
\* when it reached such an instruction.
C20_AccountListBounds ==
    /\ \A k \in 1..Len(calls) :
          /\ ~ShortAt(arb_ix, calls[k].idx)
          /\ Len(calls[k].account_infos) >= counts_of(arb_ix)[calls[k].idx + 1]
    /\ (pc = "done" /\ result = Ok(Unit)) =>
          \A i \in 0..(arb_ix.num_instructions - 1) : ~ShortAt(arb_ix, i)

====
